---- MODULE Spec2Model ----
(***************************************************************************)
(* Model of abi_extractor (src/bin/abi_extractor/src/main.rs): main reads  *)
(* a contract file, extract_abi walks the parsed syntax tree and collects  *)
(* one AbiMethod per integer-literal arm of the dispatch matches found in  *)
(* the execute methods of AlkaneResponder implementations, and main prints *)
(* the resulting AlkanesABI.                                               *)
(*                                                                         *)
(* The syntax tree is modelled by the parts of syn's types the code looks  *)
(* at: Item / ItemImpl (trait_, self_ty, items), ImplItem::Fn (sig.ident,  *)
(* block.stmts), Stmt, Expr::Match (arms), Arm (pat, guard), Pat, Lit.     *)
(* u64 values are kept as four 16-bit limbs, least significant first, so   *)
(* that the whole 64-bit range and its overflow are represented exactly.   *)
(***************************************************************************)
EXTENDS Integers, Sequences, FiniteSets, TLC

\* ------------------------------------------------------------------------
\* Bounds of the explored inputs
\* ------------------------------------------------------------------------
MaxArms == 3

MaxStmts == 2

MaxImplItems == 2

MaxItems == 2

\* ------------------------------------------------------------------------
\* Generic helpers
\* ------------------------------------------------------------------------
Last(s) == s[Len(s)]

SeqsUpTo(S, n) == UNION {[1..m -> S] : m \in 0..n}

RECURSIVE Flatten(_)
Flatten(ss) == IF ss = <<>> THEN <<>> ELSE Head(ss) \o Flatten(Tail(ss))

\* ------------------------------------------------------------------------
\* u64 arithmetic on limbs (opcode: u64)
\* ------------------------------------------------------------------------
LimbBase == 2^16

U64Zero == <<0, 0, 0, 0>>

\* v * 10 + d with overflow detection: one step of u64::from_str
\* (checked_mul(10) followed by checked_add(d)), on the limbs of v.
MulAddLimbs(v, d) ==
    LET t1 == v[1] * 10 + d
        t2 == v[2] * 10 + (t1 \div LimbBase)
        t3 == v[3] * 10 + (t2 \div LimbBase)
        t4 == v[4] * 10 + (t3 \div LimbBase)
    IN  [ok  |-> (t4 \div LimbBase) = 0,
         val |-> <<t1 % LimbBase, t2 % LimbBase, t3 % LimbBase, t4 % LimbBase>>]

\* The same step on a result so far: an error stays an error. (acc is bound
\* as an element of a set so that it is evaluated once.)
CheckedMulAdd(acc, d) ==
    CHOOSE r \in {IF a.ok THEN MulAddLimbs(a.val, d) ELSE a : a \in {acc}} : TRUE

RECURSIVE ParseDigits(_, _)
ParseDigits(digits, acc) ==
    IF digits = <<>> THEN acc
    ELSE ParseDigits(Tail(digits), CheckedMulAdd(acc, Head(digits)))

\* Variant: the parse error is replaced by zero (unwrap_or_default).
base10_parse_or_zero(lit) ==
    IF lit.neg \/ lit.digits = <<>>
    THEN [ok |-> TRUE, val |-> U64Zero]
    ELSE [ok |-> TRUE, val |-> ParseDigits(lit.digits, [ok |-> TRUE, val |-> U64Zero]).val]

\* lit_int.base10_parse::<u64>(): str::parse on the literal's base-10 digits;
\* a leading '-' is an invalid digit for an unsigned type, an empty string
\* is an error, and a value above u64::MAX is an overflow error.
base10_parse(lit) ==
    IF lit.neg \/ lit.digits = <<>>
    THEN [ok |-> FALSE, val |-> U64Zero]
    ELSE ParseDigits(lit.digits, [ok |-> TRUE, val |-> U64Zero])

\* v divided by 10: quotient limbs and remainder (long division from the
\* most significant limb).
DivMod10(v) ==
    LET t4 == v[4]
        t3 == (t4 % 10) * LimbBase + v[3]
        t2 == (t3 % 10) * LimbBase + v[2]
        t1 == (t2 % 10) * LimbBase + v[1]
    IN  [quot |-> <<t1 \div 10, t2 \div 10, t3 \div 10, t4 \div 10>>,
         rem  |-> t1 % 10]

\* Decimal digits of v, most significant first, none for zero. (v is bound
\* as an element of a set so that it is evaluated once.)
RECURSIVE DecimalDigits(_)
DecimalDigits(v) ==
    CHOOSE ds \in {IF x = U64Zero THEN <<>>
                   ELSE Append(DecimalDigits(DivMod10(x).quot), DivMod10(x).rem) : x \in {v}} : TRUE

\* Display for u64: decimal digits without leading zeros, "0" for zero.
DisplayU64(v) == IF v = U64Zero THEN <<0>> ELSE DecimalDigits(v)

DigitChars == <<"0", "1", "2", "3", "4", "5", "6", "7", "8", "9">>

MethodPrefix == <<"m", "e", "t", "h", "o", "d", "_">>

\* Variant: the opcode is formatted after a cast to u16.
format_method_name_u16(opcode) ==
    LET ds == DisplayU64(<<opcode[1], 0, 0, 0>>)
    IN  MethodPrefix \o [n \in 1..Len(ds) |-> DigitChars[ds[n] + 1]]

\* format!("method_{}", opcode), as a sequence of characters.
format_method_name(opcode) ==
    LET ds == DisplayU64(opcode)
    IN  MethodPrefix \o [n \in 1..Len(ds) |-> DigitChars[ds[n] + 1]]

\* AbiMethod { name, opcode, inputs: vec![], outputs: vec![] }
AbiMethod(opcode) ==
    [name    |-> format_method_name(opcode),
     opcode  |-> opcode,
     inputs  |-> <<>>,
     outputs |-> <<>>]

\* AlkanesABI { name, methods }
AlkanesABI(name, ms) == [name |-> name, methods |-> ms]

\* ------------------------------------------------------------------------
\* Syntax tree (the parts of syn's types that extract_abi inspects)
\* ------------------------------------------------------------------------
\* Lit: kind is the Lit variant; neg and digits are LitInt::base10_digits()
\* (syn keeps the canonical decimal digits, with the sign of a negative
\* literal pattern).
IntLit(ds) == [kind |-> "Int", neg |-> FALSE, digits |-> ds]

NegIntLit(ds) == [kind |-> "Int", neg |-> TRUE, digits |-> ds]

OtherLit(k) == [kind |-> k, neg |-> FALSE, digits |-> <<>>]

\* Arm { pat, guard, .. }: pat.kind is the Pat variant, pat.lit the literal
\* token written in the pattern (the literal itself for Pat::Lit).
Arm(patKind, lit, guard) == [pat |-> [kind |-> patKind, lit |-> lit], guard |-> guard]

\* Stmt: kind is the Stmt variant, expr the variant of its outermost
\* expression, semi the trailing semicolon, arms the arms of the match
\* expression the statement is or contains.
Stmt(kind, expr, semi, arms) == [kind |-> kind, expr |-> expr, semi |-> semi, arms |-> arms]

\* ImplItem: kind is the variant, ident the member's name, stmts the body
\* (block.stmts) of a function.
ImplItem(kind, ident, stmts) == [kind |-> kind, ident |-> ident, stmts |-> stmts]

\* Option<(_, Path, _)> of ItemImpl::trait_
NoTrait == [some |-> FALSE, segments |-> <<>>]

Trait(segs) == [some |-> TRUE, segments |-> segs]

\* Type: kind is the Type variant, segments the path segments of the named
\* type it is or wraps, text the type as written.
Ty(kind, segs, text) == [kind |-> kind, segments |-> segs, text |-> text]

\* Item: kind is the Item variant; trait_, self_ty and items as in ItemImpl
\* (for an item of another kind: those of what it declares or contains).
Item(kind, trait, ty, items) == [kind |-> kind, trait_ |-> trait, self_ty |-> ty, items |-> items]

\* ------------------------------------------------------------------------
\* Input pools
\* ------------------------------------------------------------------------
U64MaxDigits == <<1, 8, 4, 4, 6, 7, 4, 4, 0, 7, 3, 7, 0, 9, 5, 5, 1, 6, 1, 5>>

U64OverDigits == <<1, 8, 4, 4, 6, 7, 4, 4, 0, 7, 3, 7, 0, 9, 5, 5, 1, 6, 1, 6>>

a0 == Arm("Lit", IntLit(<<0>>), FALSE)

a1 == Arm("Lit", IntLit(<<1>>), FALSE)

a5 == Arm("Lit", IntLit(<<5>>), FALSE)

a77 == Arm("Lit", IntLit(<<7, 7>>), FALSE)

aLimb == Arm("Lit", IntLit(<<6, 5, 5, 3, 6>>), FALSE)

aMax == Arm("Lit", IntLit(U64MaxDigits), FALSE)

aOver == Arm("Lit", IntLit(U64OverDigits), FALSE)

aLong == Arm("Lit", IntLit(<<1, 0, 0, 0, 0, 0, 0, 0, 0, 0, 0, 0, 0, 0, 0, 0, 0, 0, 0, 0, 0>>), FALSE)

aNeg == Arm("Lit", NegIntLit(<<1>>), FALSE)

aGuard7 == Arm("Lit", IntLit(<<7>>), TRUE)

aGuardOver == Arm("Lit", IntLit(U64OverDigits), TRUE)

aGuardIdent == Arm("Ident", OtherLit("None"), TRUE)

aGuardWild == Arm("Wild", OtherLit("None"), TRUE)

aWild == Arm("Wild", OtherLit("None"), FALSE)

aIdent == Arm("Ident", OtherLit("None"), FALSE)

aRange == Arm("Range", IntLit(<<1>>), FALSE)

aOr == Arm("Or", IntLit(<<1>>), FALSE)

aStruct == Arm("Struct", IntLit(<<2>>), FALSE)

aTuple == Arm("Tuple", IntLit(<<3>>), FALSE)

aStr == Arm("Lit", OtherLit("Str"), FALSE)

aFloat == Arm("Lit", OtherLit("Float"), FALSE)

aBool == Arm("Lit", OtherLit("Bool"), FALSE)

CoreArms == {a1, a5, aOver, aGuard7, aWild, aRange}

ArmPool == {a0, a1, a5, a77, aLimb, aMax, aOver, aLong, aNeg, aGuard7, aGuardOver,
            aGuardIdent, aGuardWild, aWild, aIdent, aRange, aOr, aStruct, aTuple,
            aStr, aFloat, aBool}

\* Arm lists: every list over the core arms, and every arm of the pool
\* between two integer-literal arms.
ArmLists == SeqsUpTo(CoreArms, MaxArms) \cup {<<a5, x, a1>> : x \in ArmPool}

MatchStmt(arms) == Stmt("Expr", "Match", FALSE, arms)

StmtPool ==
    { MatchStmt(<<a5, a1>>),
      Stmt("Expr", "Match", TRUE, <<a1, aWild>>),
      Stmt("Local", "Match", TRUE, <<a77>>),
      Stmt("Expr", "Return", TRUE, <<a77>>),
      Stmt("Expr", "Block", FALSE, <<a77>>),
      Stmt("Expr", "If", FALSE, <<a77>>),
      Stmt("Expr", "Loop", FALSE, <<aOver>>),
      Stmt("Expr", "Paren", TRUE, <<a77>>),
      Stmt("Expr", "Call", TRUE, <<>>),
      Stmt("Macro", "Macro", TRUE, <<>>) }

StmtLists == SeqsUpTo(StmtPool, MaxStmts)

Execute(stmts) == ImplItem("Fn", "execute", stmts)

ImplItemPool ==
    { Execute(<<MatchStmt(<<a5, a1>>)>>),
      Execute(<<MatchStmt(<<a1, aGuard7>>)>>),
      Execute(<<Stmt("Expr", "Call", TRUE, <<>>)>>),
      ImplItem("Fn", "execute_all", <<MatchStmt(<<a77>>)>>),
      ImplItem("Const", "execute", <<>>) }

ImplItemLists == SeqsUpTo(ImplItemPool, MaxImplItems)

Responder(ty, items) == Item("Impl", Trait(<<"AlkaneResponder">>), ty, items)

ItemPool ==
    { Responder(Ty("Path", <<"X">>, "X"), <<Execute(<<MatchStmt(<<a5, a1>>)>>)>>),
      Item("Impl", Trait(<<"alkanes", "AlkaneResponder">>), Ty("Path", <<"y", "Y">>, "y::Y"),
           <<Execute(<<MatchStmt(<<a1>>)>>)>>),
      Responder(Ty("Tuple", <<"Z">>, "(Z,)"), <<Execute(<<MatchStmt(<<a77>>)>>)>>),
      Responder(Ty("Reference", <<"W">>, "&W"), <<>>),
      Responder(Ty("Path", <<"V">>, "V"), <<Execute(<<MatchStmt(<<a0, aNeg>>)>>)>>),
      Item("Impl", NoTrait, Ty("Path", <<"X">>, "X"), <<Execute(<<MatchStmt(<<a5>>)>>)>>),
      Item("Impl", Trait(<<"Other">>), Ty("Path", <<"O">>, "O"), <<Execute(<<MatchStmt(<<a5>>)>>)>>),
      Item("Impl", Trait(<<"AlkaneResponder", "Other">>), Ty("Path", <<"P">>, "P"),
           <<Execute(<<MatchStmt(<<aOver>>)>>)>>),
      Item("Fn", NoTrait, Ty("Path", <<"execute">>, "execute"), <<Execute(<<MatchStmt(<<a5>>)>>)>>),
      Item("Mod", Trait(<<"AlkaneResponder">>), Ty("Path", <<"M">>, "M"),
           <<Execute(<<MatchStmt(<<a5>>)>>)>>) }

Foo == Ty("Path", <<"Foo">>, "Foo")

\* The modules explored: lists of top-level items, and single AlkaneResponder
\* implementations over every member list, statement list and arm list.
Modules ==
    SeqsUpTo(ItemPool, MaxItems)
    \cup {<<Responder(Foo, items)>> : items \in ImplItemLists}
    \cup {<<Responder(Foo, <<Execute(stmts)>>)>> : stmts \in StmtLists}
    \cup {<<Responder(Foo, <<Execute(<<MatchStmt(arms)>>)>>)>> : arms \in ArmLists}

\* Command line and file: argc is args.len(), readable whether
\* fs::read_to_string succeeds, parses whether syn::parse_file succeeds, and
\* module the parsed file.
Input(argc, readable, parses, module) ==
    [argc |-> argc, readable |-> readable, parses |-> parses, module |-> module]

Inputs ==
    {Input(1, TRUE, TRUE, <<>>), Input(2, FALSE, TRUE, <<>>), Input(2, TRUE, FALSE, <<>>)}
    \cup {Input(2, TRUE, TRUE, m) : m \in Modules}

\* ------------------------------------------------------------------------
\* State
\* ------------------------------------------------------------------------
VARIABLES
    input,          \* command line and contract file of this run
    pc,             \* position of the run
    syntax,         \* syntax.items of extract_abi
    methods,        \* methods of extract_abi
    contract_name,  \* contract_name of extract_abi
    item_ix,        \* position of `for item in syntax.items`
    impl_ix,        \* position of `for impl_item in item_impl.items`
    stmt_ix,        \* position of `for stmt in &method.block.stmts`
    arm_ix,         \* position of `for arm in arms`
    abi,            \* abi of main: the value returned by extract_abi
    stdout,         \* what the process has printed on standard output
    exit_status     \* exit status of the process, -1 while it runs

vars == <<input, pc, syntax, methods, contract_name, item_ix, impl_ix, stmt_ix,
          arm_ix, abi, stdout, exit_status>>

locals == <<syntax, methods, contract_name, item_ix, impl_ix, stmt_ix, arm_ix>>

Init ==
    /\ input \in Inputs
    /\ pc = "main"
    /\ syntax = <<>>
    /\ methods = <<>>
    /\ contract_name = ""
    /\ item_ix = 0
    /\ impl_ix = 0
    /\ stmt_ix = 0
    /\ arm_ix = 0
    /\ abi = AlkanesABI("", <<>>)
    /\ stdout = <<>>
    /\ exit_status = -1

\* A panic (expect / unwrap on an error): the process ends with status 101
\* and whatever it had printed.
Panic ==
    /\ pc' = "panicked"
    /\ exit_status' = 101
    /\ UNCHANGED <<input, locals, abi, stdout>>

\* ------------------------------------------------------------------------
\* Conditions of extract_abi
\* ------------------------------------------------------------------------
\* Variant: every implementation block matches.
IsAnyImpl(item) == item.kind = "Impl"

\* Item::Impl with Some trait_ whose path's last segment is AlkaneResponder
IsAlkaneResponderImpl(item) ==
    /\ item.kind = "Impl"
    /\ item.trait_.some
    /\ Last(item.trait_.segments) = "AlkaneResponder"

\* Variant: the first implementation's name is kept.
ResolveContractNameFirstWins(current, self_ty) ==
    IF self_ty.kind = "Path" /\ current = "UnknownContract"
    THEN Last(self_ty.segments) ELSE current

\* Variant: a type that is not a path resets the name to the default.
ResolveContractNameOrDefault(current, self_ty) ==
    IF self_ty.kind = "Path" THEN Last(self_ty.segments) ELSE "UnknownContract"

\* contract_name after `if let Type::Path(struct_path) = &*item_impl.self_ty`
ResolveContractName(current, self_ty) ==
    IF self_ty.kind = "Path" THEN Last(self_ty.segments) ELSE current

\* Variant: only the first member named execute is taken.
IsFirstExecuteFn(items, n) ==
    /\ items[n].kind = "Fn"
    /\ items[n].ident = "execute"
    /\ \A m \in 1..(n - 1) : ~(items[m].kind = "Fn" /\ items[m].ident = "execute")

\* ImplItem::Fn whose sig.ident is "execute"
IsExecuteFn(items, n) ==
    /\ items[n].kind = "Fn"
    /\ items[n].ident = "execute"

\* Variant: any statement that contains a match expression.
ContainsMatch(stmt) == stmt.arms # <<>>

\* Stmt::Expr(Expr::Match(..), _)
IsDispatchMatch(stmt) ==
    /\ stmt.kind = "Expr"
    /\ stmt.expr = "Match"

\* Variant: any pattern in which an integer literal is written.
IsIntLitInPattern(arm) == arm.pat.lit.kind = "Int"

\* Variant: arms with a guard are skipped.
IsUnguardedIntLitArm(arm) ==
    /\ arm.pat.kind = "Lit"
    /\ arm.pat.lit.kind = "Int"
    /\ ~arm.guard

\* Pat::Lit(PatLit { lit: Lit::Int(_), .. })
IsIntLitArm(arm) ==
    /\ arm.pat.kind = "Lit"
    /\ arm.pat.lit.kind = "Int"

\* Variant: an opcode already present is not pushed again.
PushMethodDedup(ms, m) ==
    IF \E n \in 1..Len(ms) : ms[n].opcode = m.opcode THEN ms ELSE Append(ms, m)

\* methods.push(..)
PushMethod(ms, m) == Append(ms, m)

CurItem == syntax[item_ix]

CurImplItems == CurItem.items

CurStmts == CurImplItems[impl_ix].stmts

CurArms == CurStmts[stmt_ix].arms

\* ------------------------------------------------------------------------
\* Actions
\* ------------------------------------------------------------------------
\* main, args.len() < 2: usage on stderr, exit(1)
MainUsage ==
    /\ pc = "main"
    /\ input.argc < 2
    /\ pc' = "exited"
    /\ exit_status' = 1
    /\ UNCHANGED <<input, locals, abi, stdout>>

\* main: fs::read_to_string(file_path).expect(..), then the call of extract_abi
MainReadFile ==
    /\ pc = "main"
    /\ input.argc >= 2
    /\ IF input.readable
       THEN /\ pc' = "extract"
            /\ UNCHANGED <<input, locals, abi, stdout, exit_status>>
       ELSE Panic

\* extract_abi: parse_file(source).expect(..) and the initial locals
ParseFile ==
    /\ pc = "extract"
    /\ IF input.parses
       THEN /\ syntax' = input.module
            /\ methods' = <<>>
            /\ contract_name' = "UnknownContract"
            /\ item_ix' = 1
            /\ pc' = "items"
            /\ UNCHANGED <<input, impl_ix, stmt_ix, arm_ix, abi, stdout, exit_status>>
       ELSE Panic

\* one iteration of `for item in syntax.items`, up to the inner loop
VisitItem ==
    /\ pc = "items"
    /\ item_ix <= Len(syntax)
    /\ IF IsAlkaneResponderImpl(CurItem)
       THEN /\ contract_name' = ResolveContractName(contract_name, CurItem.self_ty)
            /\ impl_ix' = 1
            /\ pc' = "impl_items"
            /\ UNCHANGED item_ix
       ELSE /\ item_ix' = item_ix + 1
            /\ UNCHANGED <<contract_name, impl_ix, pc>>
    /\ UNCHANGED <<input, syntax, methods, stmt_ix, arm_ix, abi, stdout, exit_status>>

\* one iteration of `for impl_item in item_impl.items`, up to the inner loop
VisitImplItem ==
    /\ pc = "impl_items"
    /\ impl_ix <= Len(CurImplItems)
    /\ IF IsExecuteFn(CurImplItems, impl_ix)
       THEN /\ stmt_ix' = 1
            /\ pc' = "stmts"
            /\ UNCHANGED impl_ix
       ELSE /\ impl_ix' = impl_ix + 1
            /\ UNCHANGED <<stmt_ix, pc>>
    /\ UNCHANGED <<input, syntax, methods, contract_name, item_ix, arm_ix, abi, stdout,
                   exit_status>>

\* end of `for impl_item in item_impl.items`: next top-level item
EndImplItems ==
    /\ pc = "impl_items"
    /\ impl_ix > Len(CurImplItems)
    /\ item_ix' = item_ix + 1
    /\ pc' = "items"
    /\ UNCHANGED <<input, syntax, methods, contract_name, impl_ix, stmt_ix, arm_ix, abi,
                   stdout, exit_status>>

\* one iteration of `for stmt in &method.block.stmts`, up to the inner loop
VisitStmt ==
    /\ pc = "stmts"
    /\ stmt_ix <= Len(CurStmts)
    /\ IF IsDispatchMatch(CurStmts[stmt_ix])
       THEN /\ arm_ix' = 1
            /\ pc' = "arms"
            /\ UNCHANGED stmt_ix
       ELSE /\ stmt_ix' = stmt_ix + 1
            /\ UNCHANGED <<arm_ix, pc>>
    /\ UNCHANGED <<input, syntax, methods, contract_name, item_ix, impl_ix, abi, stdout,
                   exit_status>>

\* end of `for stmt in &method.block.stmts`: next member of the implementation
EndStmts ==
    /\ pc = "stmts"
    /\ stmt_ix > Len(CurStmts)
    /\ impl_ix' = impl_ix + 1
    /\ pc' = "impl_items"
    /\ UNCHANGED <<input, syntax, methods, contract_name, item_ix, stmt_ix, arm_ix, abi,
                   stdout, exit_status>>

\* one iteration of `for arm in arms`
VisitArm ==
    /\ pc = "arms"
    /\ arm_ix <= Len(CurArms)
    /\ IF IsIntLitArm(CurArms[arm_ix])
       THEN LET parsed == base10_parse(CurArms[arm_ix].pat.lit)
            IN  IF parsed.ok
                THEN /\ methods' = PushMethod(methods, AbiMethod(parsed.val))
                     /\ arm_ix' = arm_ix + 1
                     /\ UNCHANGED <<input, syntax, contract_name, item_ix, impl_ix,
                                    stmt_ix, pc, abi, stdout, exit_status>>
                ELSE Panic
       ELSE /\ arm_ix' = arm_ix + 1
            /\ UNCHANGED <<input, syntax, methods, contract_name, item_ix, impl_ix,
                           stmt_ix, pc, abi, stdout, exit_status>>

\* end of `for arm in arms`: next statement of execute
EndArms ==
    /\ pc = "arms"
    /\ arm_ix > Len(CurArms)
    /\ stmt_ix' = stmt_ix + 1
    /\ pc' = "stmts"
    /\ UNCHANGED <<input, syntax, methods, contract_name, item_ix, impl_ix, arm_ix, abi,
                   stdout, exit_status>>

\* end of `for item in syntax.items`: extract_abi returns AlkanesABI to main
Return ==
    /\ pc = "items"
    /\ item_ix > Len(syntax)
    /\ abi' = AlkanesABI(contract_name, methods)
    /\ pc' = "print"
    /\ UNCHANGED <<input, locals, stdout, exit_status>>

\* main: println!("{}", serde_json::to_string_pretty(&abi).unwrap()), exit 0
WriteStdout ==
    /\ pc = "print"
    /\ stdout' = Append(stdout, abi)
    /\ exit_status' = 0
    /\ pc' = "exited"
    /\ UNCHANGED <<input, locals, abi>>

Next ==
    \/ MainUsage
    \/ MainReadFile
    \/ ParseFile
    \/ VisitItem
    \/ VisitImplItem
    \/ EndImplItems
    \/ VisitStmt
    \/ EndStmts
    \/ VisitArm
    \/ EndArms
    \/ Return
    \/ WriteStdout

Spec == Init /\ [][Next]_vars

\* The process is a single thread that runs until it exits or panics: a step
\* that can be taken is taken.
FairSpec == Spec /\ WF_vars(Next)

\* ------------------------------------------------------------------------
\* What the properties are stated with
\* ------------------------------------------------------------------------
\* extract_abi has returned to main
Returned == pc = "print" \/ (pc = "exited" /\ exit_status = 0)

Terminated == pc \in {"exited", "panicked"}

TraitEndsInAlkaneResponder(item) ==
    /\ item.kind = "Impl"
    /\ item.trait_.some
    /\ item.trait_.segments[Len(item.trait_.segments)] = "AlkaneResponder"

IntegerLiteralPattern(arm) == arm.pat.kind = "Lit" /\ arm.pat.lit.kind = "Int"

BareMatchStatement(stmt) == stmt.kind = "Expr" /\ stmt.expr = "Match"

ExecuteMember(member) == member.kind = "Fn" /\ member.ident = "execute"

\* a <= b for digit strings of the same length
RECURSIVE DigitsLeq(_, _)
DigitsLeq(x, y) ==
    IF x = <<>> THEN TRUE
    ELSE IF Head(x) # Head(y) THEN Head(x) < Head(y)
    ELSE DigitsLeq(Tail(x), Tail(y))

\* the literal denotes a value in 0 .. 2^64 - 1
FitsU64(lit) ==
    /\ ~lit.neg
    /\ \/ Len(lit.digits) < Len(U64MaxDigits)
       \/ Len(lit.digits) = Len(U64MaxDigits) /\ DigitsLeq(lit.digits, U64MaxDigits)

\* decimal digits of the integer-literal arms of an arm list, in source order
LiteralDigits(arms) ==
    LET lits == SelectSeq(arms, IntegerLiteralPattern)
    IN  [n \in 1..Len(lits) |-> lits[n].pat.lit.digits]

DispatchDigits(stmts) ==
    Flatten([n \in 1..Len(stmts) |->
        IF BareMatchStatement(stmts[n]) THEN LiteralDigits(stmts[n].arms) ELSE <<>>])

\* arms of every member named execute of an implementation
ImplDigits(members) ==
    Flatten([n \in 1..Len(members) |->
        IF ExecuteMember(members[n]) THEN DispatchDigits(members[n].stmts) ELSE <<>>])

\* arms of the first member named execute only
FirstExecuteDigits(members) ==
    Flatten([n \in 1..Len(members) |->
        IF ExecuteMember(members[n]) /\ \A m \in 1..(n - 1) : ~ExecuteMember(members[m])
        THEN DispatchDigits(members[n].stmts) ELSE <<>>])

Responders(module) == SelectSeq(module, TraitEndsInAlkaneResponder)

ModuleDigits(module) ==
    LET rs == Responders(module)
    IN  Flatten([n \in 1..Len(rs) |-> ImplDigits(rs[n].items)])

ModuleFirstExecuteDigits(module) ==
    LET rs == Responders(module)
    IN  Flatten([n \in 1..Len(rs) |-> FirstExecuteDigits(rs[n].items)])

OpcodeDigits(ms) == [n \in 1..Len(ms) |-> DisplayU64(ms[n].opcode)]

HasDispatchMatch(item) ==
    \E n \in 1..Len(item.items) :
        /\ ExecuteMember(item.items[n])
        /\ \E k \in 1..Len(item.items[n].stmts) : BareMatchStatement(item.items[n].stmts[k])

\* the file is read and parsed
Parsed(inp) == inp.argc >= 2 /\ inp.readable /\ inp.parses

\* some integer-literal arm of a recognized dispatch match does not fit u64
HasBadLiteral(module) ==
    \E i \in 1..Len(module) :
        /\ TraitEndsInAlkaneResponder(module[i])
        /\ \E j \in 1..Len(module[i].items) :
            /\ ExecuteMember(module[i].items[j])
            /\ \E k \in 1..Len(module[i].items[j].stmts) :
                /\ BareMatchStatement(module[i].items[j].stmts[k])
                /\ \E a \in 1..Len(module[i].items[j].stmts[k].arms) :
                    /\ IntegerLiteralPattern(module[i].items[j].stmts[k].arms[a])
                    /\ ~FitsU64(module[i].items[j].stmts[k].arms[a].pat.lit)

AtItem == pc = "items" /\ item_ix <= Len(syntax)

AtStmt == pc = "stmts" /\ stmt_ix <= Len(CurStmts)

AtArm == pc = "arms" /\ arm_ix <= Len(CurArms)

\* ------------------------------------------------------------------------
\* Properties
\* ------------------------------------------------------------------------
SingleDispatchModule(module) ==
    /\ Len(module) = 1
    /\ TraitEndsInAlkaneResponder(module[1])
    /\ Len(module[1].items) = 1
    /\ ExecuteMember(module[1].items[1])
    /\ Len(module[1].items[1].stmts) = 1
    /\ BareMatchStatement(module[1].items[1].stmts[1])

\* C1: the methods pushed for a recognized dispatch match are exactly its
\* integer-literal arms in source order, one per arm, unsorted and with
\* duplicates kept: while the arms are walked, the last methods are the
\* integer-literal arms walked so far, and for a module made of one dispatch
\* match the returned list is the list of its integer-literal arms.
C1_ArmsInSourceOrder ==
    /\ pc = "arms" =>
        LET walked == LiteralDigits(SubSeq(CurArms, 1, arm_ix - 1))
            base   == Len(methods) - Len(walked)
        IN  /\ base >= 0
            /\ OpcodeDigits(SubSeq(methods, base + 1, Len(methods))) = walked
    /\ (Returned /\ SingleDispatchModule(syntax)) =>
        OpcodeDigits(abi.methods) = LiteralDigits(syntax[1].items[1].stmts[1].arms)

C1_Witness ==
    /\ pc = "exited"
    /\ SingleDispatchModule(syntax)
    /\ Len(stdout) = 1
    /\ OpcodeDigits(stdout[1].methods) = << <<5>>, <<1>>, <<5>> >>

\* The name reported for an implementing type: its last path segment, or the
\* type as written when it is not a path.
ImplementingTypeName(ty) == IF ty.kind = "Path" THEN Last(ty.segments) ELSE ty.text

SeveralDispatchingResponders(module) ==
    /\ Len(Responders(module)) >= 2
    /\ \A n \in 1..Len(Responders(module)) : HasDispatchMatch(Responders(module)[n])

\* name given by the last AlkaneResponder implementation on a path type
LastPathName(module) ==
    LET rs == SelectSeq(Responders(module), LAMBDA it : it.self_ty.kind = "Path")
    IN  IF rs = <<>> THEN "UnknownContract" ELSE Last(Last(rs).self_ty.segments)

C3_OtherItemsIgnored ==
    /\ [][(AtItem /\ ~TraitEndsInAlkaneResponder(CurItem)) =>
            /\ methods' = methods
            /\ contract_name' = contract_name
            /\ pc' = "items"
            /\ item_ix' = item_ix + 1]_vars
    /\ []((Terminated /\ Parsed(input) /\ Responders(input.module) = <<>>) =>
            /\ exit_status = 0
            /\ stdout = <<AlkanesABI("UnknownContract", <<>>)>>)

C3_Witness ==
    /\ pc = "exited"
    /\ Len(syntax) = 2
    /\ ~TraitEndsInAlkaneResponder(syntax[1])
    /\ ~TraitEndsInAlkaneResponder(syntax[2])
    /\ ImplDigits(syntax[1].items) # <<>>
    /\ ImplDigits(syntax[2].items) # <<>>
    /\ stdout = <<AlkanesABI("UnknownContract", <<>>)>>

\* C4: when an integer-literal arm of a recognized dispatch match does not
\* fit u64, nothing is ever printed on standard output, extract_abi never
\* returns, the run can only end by a panic with a non-zero status, and it
\* does end so.
C4_BadLiteralAborts ==
    /\ []((Parsed(input) /\ HasBadLiteral(input.module)) =>
            /\ stdout = <<>>
            /\ ~Returned
            /\ Terminated => (pc = "panicked" /\ exit_status # 0))
    /\ (Parsed(input) /\ HasBadLiteral(input.module)) ~>
            (pc = "panicked" /\ exit_status # 0 /\ stdout = <<>>)

C4_Witness ==
    /\ pc = "panicked"
    /\ HasBadLiteral(input.module)
    /\ Len(methods) >= 2
    /\ item_ix = 2
    /\ stdout = <<>>

HasNonPathResponder(module) ==
    \E n \in 1..Len(module) :
        TraitEndsInAlkaneResponder(module[n]) /\ module[n].self_ty.kind # "Path"

C6_NonLiteralArmsSkipped ==
    [][(AtArm /\ ~IntegerLiteralPattern(CurArms[arm_ix])) =>
          /\ methods' = methods
          /\ contract_name' = contract_name
          /\ pc' = "arms"
          /\ arm_ix' = arm_ix + 1
          /\ <<item_ix, impl_ix, stmt_ix>>' = <<item_ix, impl_ix, stmt_ix>>]_vars

C6_Witness ==
    /\ pc = "exited"
    /\ SingleDispatchModule(syntax)
    /\ Len(syntax[1].items[1].stmts[1].arms) = 3
    /\ syntax[1].items[1].stmts[1].arms[2].pat.kind = "Or"
    /\ OpcodeDigits(stdout[1].methods) = << <<5>>, <<1>> >>

\* C7 as stated: an arm that carries a guard pushes no method and raises no
\* error.
C7_Original ==
    [][(AtArm /\ CurArms[arm_ix].guard) => (methods' = methods /\ pc' = "arms")]_vars

\* C7 amended: the guard of an arm is not looked at. A guarded arm whose
\* pattern is an integer literal that fits u64 pushes the method of that
\* literal, one that does not fit aborts the run, and a guarded arm with any
\* other pattern pushes nothing and raises no error.
C7_GuardIgnored ==
    [][(AtArm /\ CurArms[arm_ix].guard) =>
          IF IntegerLiteralPattern(CurArms[arm_ix])
          THEN IF FitsU64(CurArms[arm_ix].pat.lit)
               THEN /\ Len(methods') = Len(methods) + 1
                    /\ SubSeq(methods', 1, Len(methods)) = methods
                    /\ DisplayU64(methods'[Len(methods')].opcode) = CurArms[arm_ix].pat.lit.digits
                    /\ pc' = "arms"
               ELSE pc' = "panicked" /\ methods' = methods
          ELSE methods' = methods /\ pc' = "arms"]_vars

C7_Witness ==
    /\ pc = "exited"
    /\ SingleDispatchModule(syntax)
    /\ Len(syntax[1].items[1].stmts[1].arms) = 1
    /\ syntax[1].items[1].stmts[1].arms[1].guard
    /\ OpcodeDigits(stdout[1].methods) = << <<7>> >>

DigitOfChar(c) == CHOOSE d \in 0..9 : DigitChars[d + 1] = c

\* name is "method_" followed by the decimal rendering of opcode
WellFormedMethod(m) ==
    LET n  == Len(m.name) - Len(MethodPrefix)
        ds == [x \in 1..n |-> DigitOfChar(m.name[Len(MethodPrefix) + x])]
    IN  /\ n >= 1
        /\ SubSeq(m.name, 1, Len(MethodPrefix)) = MethodPrefix
        /\ \A x \in 1..n : m.name[Len(MethodPrefix) + x] \in {DigitChars[d] : d \in 1..10}
        /\ (ds[1] = 0 => n = 1)
        /\ FitsU64(IntLit(ds))
        /\ ParseDigits(ds, [ok |-> TRUE, val |-> U64Zero]) = [ok |-> TRUE, val |-> m.opcode]
        /\ m.inputs = <<>>
        /\ m.outputs = <<>>

\* C8: every AbiMethod collected, returned or printed is named "method_"
\* followed by the decimal rendering of its own opcode, with empty inputs and
\* outputs.
C8_MethodNames ==
    /\ \A n \in 1..Len(methods) : WellFormedMethod(methods[n])
    /\ \A n \in 1..Len(abi.methods) : WellFormedMethod(abi.methods[n])
    /\ \A p \in 1..Len(stdout) :
          \A n \in 1..Len(stdout[p].methods) : WellFormedMethod(stdout[p].methods[n])

C8_Witness ==
    /\ pc = "exited"
    /\ Len(stdout) = 1
    /\ Len(stdout[1].methods) = 3
    /\ stdout[1].methods[2].name =
          MethodPrefix \o <<"1", "8", "4", "4", "6", "7", "4", "4", "0", "7", "3", "7", "0",
                            "9", "5", "5", "1", "6", "1", "5">>
    /\ stdout[1].methods[2].opcode = <<65535, 65535, 65535, 65535>>

\* C9: only a match expression that is itself a statement of the body of a
\* member named execute is walked; a statement of any other shape (let,
\* return, block, if, loop, parenthesized, ...) pushes nothing, whatever match
\* it contains.
C9_OnlyBareMatchStatements ==
    /\ [](pc = "arms" =>
            /\ BareMatchStatement(CurStmts[stmt_ix])
            /\ ExecuteMember(CurImplItems[impl_ix]))
    /\ [][(AtStmt /\ ~BareMatchStatement(CurStmts[stmt_ix])) =>
            /\ methods' = methods
            /\ pc' = "stmts"
            /\ stmt_ix' = stmt_ix + 1]_vars

C9_Witness ==
    /\ pc = "exited"
    /\ Len(syntax) = 1
    /\ Len(syntax[1].items) = 1
    /\ Len(syntax[1].items[1].stmts) = 2
    /\ syntax[1].items[1].stmts[1].kind = "Local"
    /\ syntax[1].items[1].stmts[1].arms # <<>>
    /\ syntax[1].items[1].stmts[2].expr = "Return"
    /\ syntax[1].items[1].stmts[2].arms # <<>>
    /\ stdout = <<AlkanesABI("Foo", <<>>)>>

\* C10 as stated: only the first member named execute of an implementation
\* contributes arms.
C10_Original ==
    Returned => OpcodeDigits(abi.methods) = ModuleFirstExecuteDigits(syntax)

\* C10 amended: every member function named execute of a matching
\* implementation contributes its arms, in source order.
C10_EveryExecute ==
    Returned => OpcodeDigits(abi.methods) = ModuleDigits(syntax)

C10_Witness ==
    /\ pc = "exited"
    /\ Len(syntax) = 1
    /\ Len(syntax[1].items) = 2
    /\ ExecuteMember(syntax[1].items[1])
    /\ ExecuteMember(syntax[1].items[2])
    /\ OpcodeDigits(stdout[1].methods) = << <<5>>, <<1>>, <<1>>, <<7>> >>

====
